---------------------------- MODULE Spec2Model ----------------------------
(***************************************************************************)
(* A model of the mind-map display (src/components/MindMapDisplay.tsx):   *)
(* the data tree and its ids, the D3 hierarchy with its children /        *)
(* _children fields, the tidy-tree layout, the keyed enter/update/exit    *)
(* join on the rendered elements, the transitions in flight and the       *)
(* auto-fit of the viewport.                                               *)
(*                                                                         *)
(* Lengths are integers in units of 1/Sub pixel, so that the midpoints    *)
(* of the layout stay exact.  Ratios (the zoom scale and the translation) *)
(* are reduced fractions <<numerator, denominator>>.                      *)
(***************************************************************************)
EXTENDS Integers, Sequences, FiniteSets, TLC

\* Bound: the largest data tree has MaxNodes nodes.
MaxNodes == 4

\* Bound: the boxes the auto-fit is applied to are up to MaxFit * 250 px wide
\* and high.
MaxFit == 3

\* Bound: at most MaxBurst clicks come before the transitions in flight end
\* (the transitions last 350 ms).
MaxBurst == 2

Sub == 2 * 2 * 2
Px(n) == n * Sub

VARIABLES
  pc,             \* "unmounted" before the effect has run, "mounted" after
  data,           \* the data prop: data[i] = [parent |-> .., id |-> ..], preorder
  canvas,         \* <<parentWidth, parentHeight>> as update() resolves them
  nodeIdCounter,  \* the module-level id counter
  children,       \* D3 node field children   (<<>> stands for undefined)
  _children,      \* D3 node field _children  (<<>> stands for undefined)
  x, y,           \* D3 node fields x, y   (partial: DOMAIN = nodes laid out so far)
  x0, y0,         \* D3 node fields x0, y0 (partial likewise)
  nodes,          \* the nodes array of the last update(): the visible set
  links,          \* the links array of the last update(): <<source, target>>
  nodeElems,      \* the g.node elements of the group, in document order
  linkElems,      \* the path.link elements of the group, in document order
  phase,          \* "idle", or "inflight" while the transitions of a cycle run
  bounds,         \* the getBBox() result the last auto-fit framed
  zoom,           \* the transform currently applied to the group
  zoomTo,         \* the transform the zoom transition in flight ends on
  burst,          \* the clicks handled since the transitions last ended
  last,           \* the last event handled: op, the node toggled, whether that
                  \* node was outside the visible set (stale), and the node the
                  \* click before toggled (prev; 0 when no click came before)
  hist,           \* history: the fields as they were before each click handled
                  \* since the transitions last ended, oldest first
  zooming,        \* TRUE while the zoom transition of an update() is scheduled
                  \* or running on the svg
  gesture,        \* history: the transform the last wheel or drag gesture left
                  \* (set: no update() has run since), and the gestures so far
  tooltip,        \* the tooltip div: opacity, html, and left / top
  exported,       \* the last document exportSVG() has handed to the browser, and
                  \* history: how many nodes and links were visible then
  app             \* the state of App: centralIdea, isLoading, error ("" for
                  \* null), the phrase of the last request, what came back for
                  \* it as parsed (response), whether generateMindMap returned
                  \* it (ok) or threw, and the root name of the tree returned;
                  \* mindMapData is null while pc = "empty" and the tree in
                  \* data otherwise

vars == <<pc, data, canvas, nodeIdCounter, children, _children, x, y, x0, y0,
          nodes, links, nodeElems, linkElems, phase, bounds, zoom, zoomTo,
          burst, last, hist, zooming, gesture, tooltip, exported, app>>

-----------------------------------------------------------------------------
(* Program constants *)

NODE_DIMENSIONS ==
  [height |-> Px(50), paddingX |-> Px(15), minWidth |-> Px(100), highlightStrokeWidth |-> 3]

D3_NODE_COLORS ==
  [root |-> "fill-indigo-600", level1 |-> "fill-teal-500", level2 |-> "fill-amber-500",
   default |-> "fill-slate-600", highlight |-> "fill-pink-500"]

D3_TEXT_COLORS ==
  [root |-> "fill-white", level1 |-> "fill-white", level2 |-> "fill-slate-900",
   default |-> "fill-white", highlight |-> "fill-white"]

\* The class of a path.link; its stroke-width is kept in tenths (15, and 25
\* when highlighted)
D3_LINK_COLOR == "stroke-slate-500"
D3_LINK_HIGHLIGHT_COLOR == "stroke-pink-400"

LAYOUT_CONSTANTS ==
  [nodeSeparationX |-> Px(220), nodeSeparationY |-> 70,
   margin |-> [top |-> Px(50), right |-> Px(250), bottom |-> Px(50), left |-> Px(100)]]

\* The props' defaults, width = 1200 and height = 800.
width == Px(1200)
height == Px(800)

-----------------------------------------------------------------------------
(* Small helpers *)

Min(a, b) == IF a <= b THEN a ELSE b
Max(a, b) == IF a >= b THEN a ELSE b
Abs(a) == IF a < 0 THEN -a ELSE a

RECURSIVE Gcd(_, _)
Gcd(a, b) == IF b = 0 THEN a ELSE Gcd(b, a % b)

\* The fraction n/d in lowest terms with a denominator >= 0.  A denominator
\* of 0 is what a division by zero leaves: <<1, 0>> and <<-1, 0>> stand for
\* the infinities and <<0, 0>> for NaN.
Rat(n, d) ==
  LET g == Gcd(Abs(n), Abs(d))
      s == IF d < 0 THEN -1 ELSE 1
  IN IF g = 0 THEN <<0, 0>> ELSE <<(s * n) \div g, (s * d) \div g>>

RatLeq(a, b) == a[1] * b[2] <= b[1] * a[2]
RatAdd(a, b) == Rat(a[1] * b[2] + b[1] * a[2], a[2] * b[2])
RatSub(a, b) == Rat(a[1] * b[2] - b[1] * a[2], a[2] * b[2])
RatMul(a, b) == Rat(a[1] * b[1], a[2] * b[2])
RatMin(a, b) == IF RatLeq(a, b) THEN a ELSE b

\* v / k for a division the layout needs to be exact in these units.
Exact(v, k) == CHOOSE q \in {v \div k} : q * k = v

Last(s) == s[Len(s)]

RECURSIVE Flatten(_)
Flatten(ss) == IF ss = <<>> THEN <<>> ELSE Head(ss) \o Flatten(Tail(ss))

Range(s) == {s[i] : i \in DOMAIN s}

-----------------------------------------------------------------------------
(* The data tree (MindMapNodeData).  Node 1 is the root and the nodes are  *)
(* numbered in preorder; the children array of a node lists its children   *)
(* in increasing number.  id = "" stands for a node without an id.         *)

N == Len(data)
NodeSet == 1..N

RECURSIVE AncestorsOrSelf(_, _)
AncestorsOrSelf(par, i) ==
  IF i = 0 THEN {} ELSE {i} \cup AncestorsOrSelf(par, par[i])

\* The parent arrays of the ordered trees of n nodes, numbered in preorder.
TreeShapes(n) ==
  {par \in [1..n -> 0..(n - 1)] :
     /\ par[1] = 0
     /\ \A i \in 2..n : par[i] >= 1 /\ par[i] < i
     /\ \A i \in 2..n : par[i] \in AncestorsOrSelf(par, i - 1)}

\* `node-${nodeIdCounter++}`
SynthId(k) == "node-" \o ToString(k)

\* Ids a producer may have put on the tree before it is handed over, and the
\* nodes that may carry one: here the root.
PreSuppliedIds == {"node-1"}
PreCarriers == {1}

\* The id fields handed over: no two nodes carry the same pre-supplied id.
IdFields(n) ==
  {f \in [1..n -> {""} \cup PreSuppliedIds] :
     /\ \A i, j \in 1..n : (i # j /\ f[i] # "") => f[i] # f[j]
     /\ \A i \in 1..n : f[i] # "" => i \in PreCarriers}

\* measureText(d.data.name, '14px') of the label of node i.
TextWidth(i) == Px(40 + 40 * (i % 3))

parentOf(i) == data[i].parent

\* node.children of the data node i (an array, possibly empty)
DataChildren(i) ==
  LET IsChild(j) == data[j].parent = i
  IN SelectSeq([j \in 1..N |-> j], IsChild)

RECURSIVE depth(_)
depth(i) == IF parentOf(i) = 0 THEN 0 ELSE 1 + depth(parentOf(i))

-----------------------------------------------------------------------------
(* assignIds: a node without an id gets `node-${nodeIdCounter++}`, then    *)
(* the walk goes on through node.children.  st = [id, ctr].                *)

\* !node.id, "" standing for no id
lacksIdAlways(id) == TRUE
lacksId(id) == id = ""

RECURSIVE assignIds(_, _), assignIdsEach(_, _)
assignIds(st, node) ==
  LET st1 == IF lacksId(st.id[node])
             THEN [id |-> [st.id EXCEPT ![node] = SynthId(st.ctr)],
                   ctr |-> st.ctr + 1]
             ELSE st
  IN assignIdsEach(st1, DataChildren(node))
assignIdsEach(st, cs) ==
  IF cs = <<>> THEN st ELSE assignIdsEach(assignIds(st, Head(cs)), Tail(cs))

-----------------------------------------------------------------------------
(* d3.hierarchy(data, d => d.children): a node gets a children field only  *)
(* when its data children are a non-empty array.                           *)

hierarchy == [i \in NodeSet |-> DataChildren(i)]

\* The initial collapse policy: a node beyond depth 1 that has children
\* moves them to _children.
CollapseFromDepthOne(d) == d.depth >= 1 /\ d.children # <<>>
CollapseBeyondDepthTwo(d) == d.depth > 2 /\ d.children # <<>>
CollapseDepth(d) == d.depth > 1 /\ d.children # <<>>

collapsedChildren ==
  [i \in NodeSet |->
     IF CollapseDepth([depth |-> depth(i), children |-> hierarchy[i]])
     THEN <<>> ELSE hierarchy[i]]
collapsed_children ==
  [i \in NodeSet |->
     IF CollapseDepth([depth |-> depth(i), children |-> hierarchy[i]])
     THEN hierarchy[i] ELSE <<>>]

\* node.descendants(): breadth-first from the root through children
RECURSIVE BreadthFirst(_, _)
BreadthFirst(queue, ch) ==
  IF queue = <<>> THEN <<>>
  ELSE <<Head(queue)>> \o BreadthFirst(Tail(queue) \o ch[Head(queue)], ch)

descendantsOneLevel(root, ch) == <<root>> \o ch[root]
descendants(root, ch) == BreadthFirst(<<root>>, ch)

\* node.links(): one link per descendant other than the root
linksOf(ds) ==
  LET NotRoot(n) == n # Head(ds)
      targets == SelectSeq(ds, NotRoot)
  IN [k \in DOMAIN targets |-> <<parentOf(targets[k]), targets[k]>>]

-----------------------------------------------------------------------------
(* treeLayout = d3.tree().nodeSize([nodeSeparationY, nodeSeparationX])      *)
(*   .separation((a, b) => a.parent === b.parent ? 1.2 : 1.5)               *)
(* d3.tree is the algorithm of Buchheim, Juenger and Leipert.  T maps each  *)
(* laid-out node (and 0, the parent the layout gives the root) to its       *)
(* TreeNode record: z prelim, m mod, c change, s shift, t thread,           *)
(* a ancestor, A default ancestor; 0 stands for null in t and A.            *)
(* z is kept in units of 1/(10 * Sub) of a separation unit.                 *)

separationNone(a, b) == 0
separation(a, b) == IF parentOf(a) = parentOf(b) THEN 12 * Sub ELSE 15 * Sub

TreeNode(v) == [z |-> 0, m |-> 0, c |-> 0, s |-> 0, t |-> 0, a |-> v, A |-> 0]

\* v.parent.children of the TreeNode v, and v.i + 1
siblingsOf(ch, v) == IF v = 1 THEN <<1>> ELSE ch[parentOf(v)]
numberOf(ch, v) == CHOOSE i \in DOMAIN siblingsOf(ch, v) : siblingsOf(ch, v)[i] = v

nextLeft(T, ch, v) == IF ch[v] # <<>> THEN ch[v][1] ELSE T[v].t
nextRight(T, ch, v) == IF ch[v] # <<>> THEN Last(ch[v]) ELSE T[v].t

moveSubtree(T, ch, wm, wp, shift) ==
  LET change == Exact(shift, numberOf(ch, wp) - numberOf(ch, wm))
  IN [T EXCEPT ![wp].c = @ - change, ![wp].s = @ + shift, ![wm].c = @ + change,
               ![wp].z = @ + shift, ![wp].m = @ + shift]

\* executeShifts(v): i counts down over v.children
RECURSIVE executeShiftsFrom(_, _, _, _, _)
executeShiftsFrom(T, cs, i, shift, change) ==
  IF i = 0 THEN T
  ELSE LET w == cs[i]
           change1 == change + T[w].c
       IN executeShiftsFrom([T EXCEPT ![w].z = @ + shift, ![w].m = @ + shift],
                            cs, i - 1, shift + T[w].s + change1, change1)
executeShifts(T, ch, v) == executeShiftsFrom(T, ch[v], Len(ch[v]), 0, 0)

nextAncestor(T, vim, v, ancestor) ==
  IF parentOf(T[vim].a) = parentOf(v) THEN T[vim].a ELSE ancestor

\* The while loop of apportion.  L holds the loop's variables.
RECURSIVE apportionLoop(_, _)
apportionLoop(L, ch) ==
  LET vim == nextRight(L.T, ch, L.vim)
      vip == nextLeft(L.T, ch, L.vip)
  IN IF vim = 0 \/ vip = 0 THEN [L EXCEPT !.vim = vim, !.vip = vip]
     ELSE
       LET vom == nextLeft(L.T, ch, L.vom)
           vop == nextRight(L.T, ch, L.vop)
           T1 == [L.T EXCEPT ![vop].a = L.v]
           shift == T1[vim].z + L.sim - T1[vip].z - L.sip + separation(vim, vip)
           T2 == IF shift > 0
                 THEN moveSubtree(T1, ch, nextAncestor(T1, vim, L.v, L.ancestor), L.v, shift)
                 ELSE T1
           sip1 == IF shift > 0 THEN L.sip + shift ELSE L.sip
           sop1 == IF shift > 0 THEN L.sop + shift ELSE L.sop
       IN apportionLoop([L EXCEPT !.T = T2, !.vim = vim, !.vip = vip,
                                  !.vom = vom, !.vop = vop,
                                  !.sim = L.sim + T2[vim].m,
                                  !.sip = sip1 + T2[vip].m,
                                  !.som = L.som + T2[vom].m,
                                  !.sop = sop1 + T2[vop].m], ch)

\* apportion(v, w, ancestor): returns [T, ancestor]
apportion(T, ch, v, w, ancestor) ==
  IF w = 0 THEN [T |-> T, ancestor |-> ancestor]
  ELSE
    LET vom0 == siblingsOf(ch, v)[1]
        \* after the loop, with its variables in L
        threads(L) ==
          LET setR == L.vim # 0 /\ nextRight(L.T, ch, L.vop) = 0
              T1 == IF setR
                    THEN [L.T EXCEPT ![L.vop].t = L.vim, ![L.vop].m = @ + L.sim - L.sop]
                    ELSE L.T
              setL == L.vip # 0 /\ nextLeft(T1, ch, L.vom) = 0
              T2 == IF setL
                    THEN [T1 EXCEPT ![L.vom].t = L.vip, ![L.vom].m = @ + L.sip - L.som]
                    ELSE T1
          IN [T |-> T2, ancestor |-> IF setL THEN v ELSE ancestor]
    IN threads(apportionLoop([T |-> T, v |-> v, ancestor |-> ancestor,
                              vip |-> v, vop |-> v, vim |-> w, vom |-> vom0,
                              sip |-> T[v].m, sop |-> T[v].m,
                              sim |-> T[w].m, som |-> T[vom0].m], ch))

firstWalk(T, ch, v) ==
  LET cs == ch[v]
      siblings == siblingsOf(ch, v)
      i == numberOf(ch, v)
      w == IF i > 1 THEN siblings[i - 1] ELSE 0
      par == parentOf(v)
      \* v with children, after executeShifts(v) has left Te
      overChildren(Te) ==
        LET midpoint == Exact(Te[cs[1]].z + Te[Last(cs)].z, 2)
        IN IF w # 0
           THEN [Te EXCEPT ![v].z = Te[w].z + separation(v, w),
                           ![v].m = Te[w].z + separation(v, w) - midpoint]
           ELSE [Te EXCEPT ![v].z = midpoint]
      \* v.parent.A = apportion(v, w, v.parent.A || siblings[0])
      setAncestor(r) == [r.T EXCEPT ![par].A = r.ancestor]
      apportioned(T1) ==
        setAncestor(apportion(T1, ch, v, w,
                              IF T1[par].A # 0 THEN T1[par].A ELSE siblings[1]))
  IN apportioned(IF cs # <<>> THEN overChildren(executeShifts(T, ch, v))
                 ELSE IF w # 0 THEN [T EXCEPT ![v].z = T[w].z + separation(v, w)]
                 ELSE T)

\* node.eachAfter: post-order, siblings left to right
RECURSIVE eachAfter(_, _)
eachAfter(ch, v) ==
  Flatten([k \in DOMAIN ch[v] |-> eachAfter(ch, ch[v][k])]) \o <<v>>

RECURSIVE firstWalkAll(_, _, _)
firstWalkAll(T, ch, order) ==
  IF order = <<>> THEN T
  ELSE firstWalkAll(firstWalk(T, ch, Head(order)), ch, Tail(order))

\* secondWalk in pre-order: the accumulated mod of v, with t.parent.m = -t.z
RECURSIVE modSum(_, _)
modSum(T, v) == IF v = 0 THEN -T[1].z ELSE T[v].m + modSum(T, parentOf(v))

\* tree(root): the x and y of every node reachable through children, after
\* sizeNode.  The layout walks the tree itself (treeRoot, eachAfter, eachBefore).
treeLayout(ch) ==
  LET \* root.eachBefore(secondWalk) and sizeNode, after the first walk has left T
      positions(T) ==
        [v \in DOMAIN T \ {0} |->
           [x |-> Exact((T[v].z + modSum(T, parentOf(v))) * LAYOUT_CONSTANTS.nodeSeparationY, 10),
            y |-> depth(v) * LAYOUT_CONSTANTS.nodeSeparationX]]
      walked(order) ==
        positions(firstWalkAll([v \in {0} \cup Range(order) |-> TreeNode(v)], ch, order))
  IN walked(eachAfter(ch, 1))

-----------------------------------------------------------------------------
(* The rendered elements.                                                   *)
(* A g.node element: datum (its bound D3 node), tf (its transform now),     *)
(* to (the transform its transition ends on), w (its rect's width), exit    *)
(* (its transition ends with remove()).                                     *)
(* A path.link element: datum (the target node of its bound link), d (the   *)
(* end points <<sx, sy, tx, ty>> of its path now), to, exit.                *)

getNodeWidth(d) ==
  Max(NODE_DIMENSIONS.minWidth, TextWidth(d) + NODE_DIMENSIONS.paddingX * 2)

\* a || b on numbers, where a may be missing: 0 and undefined are falsy
OrElse(f, n, b) == IF n \in DOMAIN f /\ f[n] # 0 THEN f[n] ELSE b

SetMin(S) == CHOOSE m \in S : \A k \in S : m <= k

\* selection.data(data, key), bindKey: match[j] is the element that data[j]
\* updates, 0 when data[j] enters.  The first element of a key holds the key;
\* the first datum of a key takes it.
bindKey(elemKeys, dataKeys) ==
  [j \in DOMAIN dataKeys |->
     LET holders == {i \in DOMAIN elemKeys : elemKeys[i] = dataKeys[j]}
     IN IF \E j2 \in 1..(j - 1) : dataKeys[j2] = dataKeys[j] THEN 0
        ELSE IF holders = {} THEN 0 ELSE SetMin(holders)]

\* enter()._next: the element updated by the first later datum that updates one
nextOf(match, j) ==
  LET later == {j2 \in (j + 1)..Len(match) : match[j2] # 0}
  IN IF later = {} THEN 0 ELSE match[SetMin(later)]

\* The data indices that enter, in data order
entering(match) ==
  LET Enters(j) == match[j] = 0
  IN SelectSeq([j \in DOMAIN match |-> j], Enters)

\* The document order after enter().append(): an entering element goes before
\* its _next, or to the end.
appended(old, match, created) ==
  LET before(i) == LET Here(j) == nextOf(match, j) = i
                   IN SelectSeq(entering(match), Here)
      make(js) == [k \in DOMAIN js |-> created[js[k]]]
  IN Flatten([i \in DOMAIN old |-> make(before(i)) \o <<old[i]>>]) \o make(before(0))

\* The document order after enter().insert("path", "g"): before the first g,
\* that is after the paths there are.
inserted(old, match, created) ==
  LET js == entering(match)
  IN old \o [k \in DOMAIN js |-> created[js[k]]]

\* getBBox() of the group: the union of the rects of the g.node elements and
\* of the boxes of the paths, as they are now.
Box(l, t, r, b) == [l |-> l, t |-> t, r |-> r, b |-> b]
nodeBox(e) == Box(e.tf[1], e.tf[2], e.tf[1] + e.w, e.tf[2] + NODE_DIMENSIONS.height)
linkBox(e) == Box(Min(e.d[1], e.d[3]), Min(e.d[2], e.d[4]),
                  Max(e.d[1], e.d[3]), Max(e.d[2], e.d[4]))
SetMax(S) == CHOOSE m \in S : \A k \in S : m >= k
unionBox(boxes) ==
  LET l == SetMin({b.l : b \in boxes})
      t == SetMin({b.t : b \in boxes})
      r == SetMax({b.r : b \in boxes})
      b == SetMax({bb.b : bb \in boxes})
  IN [x |-> l, y |-> t, width |-> r - l, height |-> b - t]
getBBox(ne, le) ==
  unionBox({nodeBox(ne[i]) : i \in DOMAIN ne} \cup {linkBox(le[i]) : i \in DOMAIN le})

-----------------------------------------------------------------------------
(* The auto-fit at the end of update().  b is the getBBox() result and cv   *)
(* is <<parentWidth, parentHeight>>.                                        *)

effectiveWidthNoMargin(cv) == cv[1]
effectiveWidth(cv) ==
  cv[1] - LAYOUT_CONSTANTS.margin.left - LAYOUT_CONSTANTS.margin.right
effectiveHeight(cv) ==
  cv[2] - LAYOUT_CONSTANTS.margin.top - LAYOUT_CONSTANTS.margin.bottom

\* the 1.5 of Math.min(scaleX, scaleY, 1.5)
maxScale == Rat(3, 2)

fitScaleUnguarded(b, cv) ==
  RatMin(RatMin(Rat(effectiveWidth(cv), b.width),
                Rat(effectiveHeight(cv), b.height)), maxScale)
fitScale(b, cv) ==
  IF b.width > 0 /\ b.height > 0
  THEN RatMin(RatMin(Rat(effectiveWidth(cv), b.width),
                     Rat(effectiveHeight(cv), b.height)), maxScale)
  ELSE IF b.width > 0 THEN RatMin(Rat(effectiveWidth(cv), b.width), maxScale)
  ELSE IF b.height > 0 THEN RatMin(Rat(effectiveHeight(cv), b.height), maxScale)
  ELSE Rat(1, 1)

\* (parent - extent * scale) / 2 - origin * scale
fitTranslate(parent, extent, origin, scale) ==
  Rat(parent * scale[2] - extent * scale[1] - 2 * origin * scale[1], 2 * scale[2])

\* d3.zoomIdentity.translate(translateX, translateY).scale(scale)
autoFit(b, cv) ==
  LET scale == fitScale(b, cv)
  IN [k |-> scale,
      x |-> fitTranslate(cv[1], b.width, b.x, scale),
      y |-> fitTranslate(cv[2], b.height, b.y, scale)]

zoomIdentity == [k |-> Rat(1, 1), x |-> Rat(0, 1), y |-> Rat(0, 1)]

-----------------------------------------------------------------------------
(* update(source).  ch and sch are the children and _children fields at the *)
(* call, ids the id fields, X, Y, X0, Y0 the position fields, NE and LE the *)
(* elements of the group, cv the canvas.  The result holds the fields and   *)
(* elements after the call.                                                 *)

\* The end point of a link at node n: the centre of n, pulled in when n has
\* neither children nor _children.
linkEnd(n, ch, sch, nx, ny) ==
  LET halfNodeWidth == Exact(getNodeWidth(n), 2)
      adjustment == IF ch[n] # <<>> \/ sch[n] # <<>> THEN 0
                    ELSE halfNodeWidth - NODE_DIMENSIONS.paddingX + Px(5)
  IN <<ny[n] + halfNodeWidth - adjustment, nx[n]>>

\* treeData = treeLayout(currentRootRef.current): the layout returns the root
\* it was given, and update() takes its nodes and links from there.
treeDataOfSource(source) == source
treeData(source) == 1

\* nodes.forEach(d => { d.x0 = d.x; d.y0 = d.y; }): the field prev after now
\* has been recorded in it for the nodes vis
notRecorded(prev, vis, now) == prev
recorded(prev, vis, now) ==
  [n \in DOMAIN prev \cup vis |-> IF n \in vis THEN now[n] ELSE prev[n]]

getNodeFillClass(d) ==
  IF depth(d) = 0 THEN D3_NODE_COLORS.root
  ELSE IF depth(d) = 1 THEN D3_NODE_COLORS.level1
  ELSE IF depth(d) = 2 THEN D3_NODE_COLORS.level2
  ELSE D3_NODE_COLORS.default

getNodeTextClass(d) ==
  IF depth(d) = 0 THEN D3_TEXT_COLORS.root
  ELSE IF depth(d) = 1 THEN D3_TEXT_COLORS.level1
  ELSE IF depth(d) = 2 THEN D3_TEXT_COLORS.level2
  ELSE D3_TEXT_COLORS.default

update(source, ch, sch, ids, X, Y, X0, Y0, NE, LE, cv) ==
  LET \* the auto-fit, with b the getBBox() of the group
      fitted(nx, ny, ds, ls, ne, le, b) ==
        LET vis == Range(ds)
        IN [x |-> nx, y |-> ny,
            x0 |-> recorded(X0, vis, nx),
            y0 |-> recorded(Y0, vis, ny),
            nodes |-> ds, links |-> ls, nodeElems |-> ne, linkElems |-> le,
            bounds |-> b, zoomTo |-> autoFit(b, cv)]
      measured(nx, ny, ds, ls, ne, le) == fitted(nx, ny, ds, ls, ne, le, getBBox(ne, le))
      \* the g.node join, keyed by d.data.id, with nmatch its bindKey
      nodeJoin(nx, ny, ds, nmatch) ==
        LET nodeTo(d) == <<ny[d], nx[d] - Exact(NODE_DIMENSIONS.height, 2)>>
            enterAt == <<OrElse(Y0, source, ny[source]), OrElse(X0, source, nx[source])>>
            exitTo == <<ny[source], nx[source]>>
            nodeEnter == [j \in DOMAIN ds |->
                            [datum |-> ds[j], tf |-> enterAt, to |-> nodeTo(ds[j]),
                             w |-> getNodeWidth(ds[j]), exit |-> FALSE,
                             entered |-> TRUE, rect |-> getNodeFillClass(ds[j]),
                             strokeWidth |-> 1, text |-> getNodeTextClass(ds[j]),
                             tween |-> FALSE, over |-> FALSE, opacity |-> 100]]
            nodeOld == [i \in DOMAIN NE |->
                          IF \E j \in DOMAIN ds : nmatch[j] = i
                          THEN LET j == CHOOSE j \in DOMAIN ds : nmatch[j] = i
                               IN [NE[i] EXCEPT !.datum = ds[j], !.to = nodeTo(ds[j]),
                                                !.exit = FALSE, !.entered = FALSE,
                                                !.tween = NE[i].rect # getNodeFillClass(ds[j])]
                          ELSE [NE[i] EXCEPT !.to = exitTo, !.exit = TRUE,
                                             !.entered = FALSE, !.tween = FALSE]]
        IN appended(nodeOld, nmatch, nodeEnter)
      \* the path.link join, keyed by d.target.data.id, with lmatch its bindKey
      linkJoin(nx, ny, ls, lmatch) ==
        LET atSource == <<ny[source] + Exact(getNodeWidth(source), 2), nx[source]>>
            collapsedPath == atSource \o atSource
            linkTo(l) == linkEnd(l[1], ch, sch, nx, ny) \o linkEnd(l[2], ch, sch, nx, ny)
            linkEnter == [j \in DOMAIN ls |->
                            [datum |-> ls[j][2], d |-> collapsedPath, to |-> linkTo(ls[j]),
                             exit |-> FALSE, stroke |-> D3_LINK_COLOR,
                             strokeWidth |-> 15]]
            linkOld == [i \in DOMAIN LE |->
                          IF \E j \in DOMAIN ls : lmatch[j] = i
                          THEN LET j == CHOOSE j \in DOMAIN ls : lmatch[j] = i
                               IN [LE[i] EXCEPT !.datum = ls[j][2], !.to = linkTo(ls[j]),
                                                !.exit = FALSE]
                          ELSE [LE[i] EXCEPT !.to = collapsedPath, !.exit = TRUE]]
        IN inserted(linkOld, lmatch, linkEnter)
      joined(nx, ny, ds, ls) ==
        measured(nx, ny, ds, ls,
                 nodeJoin(nx, ny, ds, bindKey([i \in DOMAIN NE |-> ids[NE[i].datum]],
                                              [j \in DOMAIN ds |-> ids[ds[j]]])),
                 linkJoin(nx, ny, ls, bindKey([i \in DOMAIN LE |-> ids[LE[i].datum]],
                                              [j \in DOMAIN ls |-> ids[ls[j][2]]])))
      \* the layout has left lay; ds = treeData.descendants()
      laidOut(lay, ds) ==
        LET laid == DOMAIN lay
        IN joined([n \in DOMAIN X \cup laid |-> IF n \in laid THEN lay[n].x ELSE X[n]],
                  [n \in DOMAIN Y \cup laid |-> IF n \in laid THEN lay[n].y ELSE Y[n]],
                  ds, linksOf(ds))
  IN laidOut(treeLayout(ch), descendants(treeData(source), ch))

-----------------------------------------------------------------------------
(* The state before the effect runs: a data tree of at most MaxNodes nodes, *)
(* some of its nodes with an id already, and a canvas.                      *)

DataTrees ==
  UNION {{[i \in 1..n |-> [parent |-> par[i], id |-> f[i]]] :
            par \in TreeShapes(n), f \in IdFields(n)} : n \in 1..MaxNodes}

\* parentElement.clientWidth || width, parentElement.clientHeight || height
Canvases == {<<width, height>>}

NoFields == [n \in {} |-> 0]

\* What the service has returned: nothing yet
NoResponse == [json |-> "none", name |-> "", children |-> [kind |-> "missing", items |-> <<>>]]

\* Nothing rendered yet
Blank ==
  /\ nodeIdCounter = 0
  /\ children = <<>> /\ _children = <<>>
  /\ x = NoFields /\ y = NoFields /\ x0 = NoFields /\ y0 = NoFields
  /\ nodes = <<>> /\ links = <<>>
  /\ nodeElems = <<>> /\ linkElems = <<>>
  /\ phase = "idle"
  /\ bounds = [x |-> 0, y |-> 0, width |-> 0, height |-> 0]
  /\ zoom = zoomIdentity /\ zoomTo = zoomIdentity
  /\ burst = 0
  /\ last = [op |-> "none", node |-> 0, stale |-> FALSE, prev |-> 0]
  /\ hist = <<>>
  /\ zooming = FALSE
  /\ gesture = [set |-> FALSE, transform |-> zoomIdentity, n |-> 0]
  /\ tooltip = [opacity |-> 0, html |-> 0, at |-> <<0, 0>>]
  /\ exported = [g |-> <<>>, path |-> <<>>, download |-> 0, visible |-> <<0, 0>>]
  /\ app = [centralIdea |-> "", isLoading |-> FALSE, error |-> "", requested |-> "",
            response |-> NoResponse, ok |-> FALSE, name |-> ""]

Init ==
  /\ pc = "unmounted"
  /\ data \in DataTrees
  /\ canvas \in Canvases
  /\ Blank

\* What update(source) leaves in the state
Updated(u) ==
  /\ x' = u.x /\ y' = u.y /\ x0' = u.x0 /\ y0' = u.y0
  /\ nodes' = u.nodes /\ links' = u.links
  /\ nodeElems' = u.nodeElems /\ linkElems' = u.linkElems
  /\ bounds' = u.bounds /\ zoomTo' = u.zoomTo
  /\ phase' = "inflight"
  /\ zooming' = TRUE
  /\ gesture' = [gesture EXCEPT !.set = FALSE]

\* The effect of the component: ids, hierarchy, initial collapse, first update.
Mount ==
  /\ pc = "unmounted"
  /\ LET st == assignIds([id |-> [i \in NodeSet |-> data[i].id], ctr |-> 0], 1)
         ids == st.id
     IN /\ data' = [i \in NodeSet |-> [data[i] EXCEPT !.id = ids[i]]]
        /\ nodeIdCounter' = st.ctr
        /\ children' = collapsedChildren
        /\ _children' = collapsed_children
        /\ Updated(update(1, collapsedChildren, collapsed_children, ids,
                          NoFields, NoFields,
                          (1 :> Exact(height, 2)), (1 :> 0),
                          <<>>, <<>>, canvas))
  /\ pc' = "mounted"
  /\ last' = [op |-> "mount", node |-> 1, stale |-> FALSE, prev |-> 0]
  /\ UNCHANGED <<canvas, zoom, burst, hist, tooltip, exported, app>>

\* The fields of the D3 nodes and the arrays of the last update()
Fields == [children |-> children, _children |-> _children, x |-> x, y |-> y,
           x0 |-> x0, y0 |-> y0, nodes |-> nodes, links |-> links]

\* if (d.children) { // If node is expanded
expanded(n) == children[n] # <<>>

toggledWithoutStash(d, ch, sch) ==
  IF ch[d] # <<>>
  THEN [children |-> [ch EXCEPT ![d] = <<>>], _children |-> sch]
  ELSE IF sch[d] # <<>>
  THEN [children |-> [ch EXCEPT ![d] = sch[d]], _children |-> [sch EXCEPT ![d] = <<>>]]
  ELSE [children |-> ch, _children |-> sch]
toggledCollapsingAll(d, ch, sch) ==
  IF ch[d] # <<>>
  THEN [children |-> [m \in DOMAIN ch |-> <<>>],
        _children |-> [m \in DOMAIN ch |-> ch[m] \o sch[m]]]
  ELSE IF sch[d] # <<>>
  THEN [children |-> [ch EXCEPT ![d] = sch[d]], _children |-> [sch EXCEPT ![d] = <<>>]]
  ELSE [children |-> ch, _children |-> sch]
\* toggleChildren(d), before its call of update(d)
toggled(d, ch, sch) ==
  IF ch[d] # <<>>
  THEN [children |-> [ch EXCEPT ![d] = <<>>], _children |-> [sch EXCEPT ![d] = ch[d]]]
  ELSE IF sch[d] # <<>>
  THEN [children |-> [ch EXCEPT ![d] = sch[d]], _children |-> [sch EXCEPT ![d] = <<>>]]
  ELSE [children |-> ch, _children |-> sch]

\* A click on the i-th g.node element of the group (an element on its way out
\* is still there to be clicked): toggleChildren with the element's datum.
Click(i) ==
  /\ pc = "mounted"
  /\ burst < MaxBurst
  /\ i \in DOMAIN nodeElems
  /\ LET d == nodeElems[i].datum
         t == toggled(d, children, _children)
     IN /\ children' = t.children
        /\ _children' = t._children
        /\ Updated(update(d, t.children, t._children, [n \in NodeSet |-> data[n].id],
                          x, y, x0, y0, nodeElems, linkElems, canvas))
        /\ last' = [op |-> "toggle", node |-> d, stale |-> d \notin Range(nodes),
                     prev |-> IF last.op = "toggle" THEN last.node ELSE 0]
  /\ burst' = burst + 1
  /\ hist' = Append(hist, Fields)
  /\ UNCHANGED <<pc, data, canvas, nodeIdCounter, zoom, tooltip, exported, app>>

\* The elements left when the transitions end, had .remove() been left out
settledNodesKeepingAll(NE) ==
  [i \in DOMAIN NE |->
     [NE[i] EXCEPT !.tf = NE[i].to, !.w = getNodeWidth(NE[i].datum),
                   !.entered = FALSE, !.tween = FALSE]]

\* The transitions of the last update() end: every element is where its
\* transition took it, the elements on their way out are removed, and the
\* group has the auto-fit transform.
settledNodes(NE) ==
  LET Stays(e) == ~e.exit
      ne == SelectSeq(NE, Stays)
  IN [i \in DOMAIN ne |->
        [ne[i] EXCEPT !.tf = ne[i].to, !.w = getNodeWidth(ne[i].datum),
                      !.entered = FALSE, !.tween = FALSE,
                      !.rect = IF ne[i].tween THEN getNodeFillClass(ne[i].datum)
                               ELSE ne[i].rect]]
settledLinks(LE) ==
  LET Stays(e) == ~e.exit
      le == SelectSeq(LE, Stays)
  IN [i \in DOMAIN le |-> [le[i] EXCEPT !.d = le[i].to]]

\* The transform when the transitions end: the zoom transition, unless a
\* gesture has interrupted it, has taken the group to its target.
settledZoomRegardless(active, now, target) == target
settledZoom(active, now, target) == IF active THEN target ELSE now

TransitionEnd ==
  /\ phase = "inflight"
  /\ nodeElems' = settledNodes(nodeElems)
  /\ linkElems' = settledLinks(linkElems)
  /\ zoom' = settledZoom(zooming, zoom, zoomTo)
  /\ zooming' = FALSE
  /\ phase' = "idle"
  /\ burst' = 0
  /\ hist' = <<>>
  /\ last' = [op |-> "end", node |-> 0, stale |-> FALSE, prev |-> 0]
  /\ UNCHANGED <<pc, data, canvas, nodeIdCounter, children, _children,
                 x, y, x0, y0, nodes, links, bounds, zoomTo,
                 gesture, tooltip, exported, app>>

Next ==
  \/ Mount
  \/ \E i \in 1..(MaxNodes * (MaxBurst + 1)) : Click(i)
  \/ TransitionEnd

Spec == Init /\ [][Next]_vars

-----------------------------------------------------------------------------
(* The pointer and the export: the zoom behaviour on the svg, the hover     *)
(* handlers of the g.node elements, and exportSVG().                        *)

\* Bound: at most MaxGestures wheel and drag gestures are made.
MaxGestures == 1

\* Bound: the trees shown while the pointer is at work have up to MaxView nodes.
MaxView == 2

scaleExtent == <<Rat(1, 10), Rat(3, 1)>>

\* d3-zoom, wheeled: the scale times 2^delta, kept within scaleExtent, with
\* the point p of the svg left where it is.
wheeled(t, delta, p) ==
  LET k1 == RatMin(scaleExtent[2], RatMul(t.k, IF delta > 0 THEN Rat(2, 1) ELSE Rat(1, 2)))
      k == IF RatLeq(scaleExtent[1], k1) THEN k1 ELSE scaleExtent[1]
      \* t.invert(p), then translate so that it is under p again
      along(c, v) ==
        RatSub(Rat(c, 1), RatMul(RatMul(RatSub(Rat(c, 1), v), <<t.k[2], t.k[1]>>), k))
  IN [k |-> k, x |-> along(p[1], t.x), y |-> along(p[2], t.y)]

\* d3-zoom, mousemoved: the group follows the pointer by by
dragged(t, by) ==
  [k |-> t.k, x |-> RatAdd(t.x, Rat(by[1], 1)), y |-> RatAdd(t.y, Rat(by[2], 1))]

\* A gesture starts by interrupting the zoom transition of the svg
\* (interrupt(this)), then sets the transform and the attribute of the group.
Gestured(t) ==
  /\ pc = "mounted"
  /\ gesture.n < MaxGestures
  /\ zoom' = t
  /\ zooming' = FALSE
  /\ gesture' = [set |-> TRUE, transform |-> t, n |-> gesture.n + 1]
  /\ UNCHANGED <<pc, data, canvas, nodeIdCounter, children, _children, x, y, x0, y0,
                 nodes, links, nodeElems, linkElems, phase, bounds, zoomTo, burst,
                 last, hist, tooltip, exported, app>>

\* The wheel turns either way with the pointer at the middle of the svg
Wheel ==
  \E delta \in {-1, 1}, p \in {<<Exact(width, 2), Exact(height, 2)>>} :
    Gestured(wheeled(zoom, delta, p))

\* A drag of 40 px to the right and up
Drag == \E by \in {<<Px(40), -Px(40)>>} : Gestured(dragged(zoom, by))

\* The id of a node, and of the parent it may have ('' for none)
idOf(n) == data[n].id
parentIdOf(n) == IF parentOf(n) = 0 THEN "" ELSE idOf(parentOf(n))

\* The filter of handleMouseOver on path.link, l being the target of the link
\* and its source the parent of l
adjacent(l, d) ==
  \/ parentIdOf(l) = idOf(d)
  \/ idOf(l) = idOf(d) /\ parentOf(d) # 0 /\ parentIdOf(d) = parentIdOf(l)

\* Where the pointer is on the page
Pages == {<<300, 200>>}

\* mouseover on the i-th g.node element, the pointer coming from outside
\* every node: handleMouseOver with the datum of the element
MouseOver(i) ==
  /\ pc = "mounted"
  /\ i \in DOMAIN nodeElems
  /\ \A j \in DOMAIN nodeElems : ~nodeElems[j].over
  /\ LET d == nodeElems[i].datum
     IN /\ nodeElems' =
             [j \in DOMAIN nodeElems |->
                LET e == [nodeElems[j] EXCEPT !.over = (j = i)]
                IN IF idOf(e.datum) = idOf(d)
                   THEN [e EXCEPT !.rect = D3_NODE_COLORS.highlight,
                                  !.strokeWidth = NODE_DIMENSIONS.highlightStrokeWidth,
                                  !.text = D3_TEXT_COLORS.highlight]
                   ELSE e]
        /\ linkElems' =
             [j \in DOMAIN linkElems |->
                IF adjacent(linkElems[j].datum, d)
                THEN [linkElems[j] EXCEPT !.stroke = D3_LINK_HIGHLIGHT_COLOR,
                                          !.strokeWidth = 25]
                ELSE linkElems[j]]
        /\ tooltip' = [tooltip EXCEPT !.opacity = 1, !.html = d]
  /\ UNCHANGED <<pc, data, canvas, nodeIdCounter, children, _children, x, y, x0, y0,
                 nodes, links, phase, bounds, zoom, zoomTo, burst, last, hist,
                 zooming, gesture, exported, app>>

\* mousemove over the g.node element the pointer is over: handleMouseMove
MouseMove ==
  /\ pc = "mounted"
  /\ \E j \in DOMAIN nodeElems : nodeElems[j].over
  /\ \E page \in Pages : tooltip' = [tooltip EXCEPT !.at = <<page[1] + 15, page[2] - 10>>]
  /\ UNCHANGED <<pc, data, canvas, nodeIdCounter, children, _children, x, y, x0, y0,
                 nodes, links, nodeElems, linkElems, phase, bounds, zoom, zoomTo,
                 burst, last, hist, zooming, gesture, exported, app>>

\* mouseout of the g.node element the pointer is over: handleMouseOut with
\* the datum of the element
MouseOut ==
  /\ pc = "mounted"
  /\ \E i \in DOMAIN nodeElems :
       /\ nodeElems[i].over
       /\ LET d == nodeElems[i].datum
          IN /\ nodeElems' =
                  [j \in DOMAIN nodeElems |->
                     LET e == [nodeElems[j] EXCEPT !.over = FALSE]
                     IN IF idOf(e.datum) = idOf(d)
                        THEN [e EXCEPT !.rect = getNodeFillClass(d), !.strokeWidth = 1,
                                       !.text = getNodeTextClass(d)]
                        ELSE e]
  /\ linkElems' = [j \in DOMAIN linkElems |->
                     [linkElems[j] EXCEPT !.stroke = D3_LINK_COLOR, !.strokeWidth = 15]]
  /\ tooltip' = [tooltip EXCEPT !.opacity = 0]
  /\ UNCHANGED <<pc, data, canvas, nodeIdCounter, children, _children, x, y, x0, y0,
                 nodes, links, phase, bounds, zoom, zoomTo, burst, last, hist,
                 zooming, gesture, exported, app>>

\* new XMLSerializer().serializeToString(svgRef.current): the elements the
\* svg holds now, each g.node with its rect and each path.link, by the id of
\* their datum, in document order
serializeToString(NE, LE) ==
  [path |-> [i \in DOMAIN LE |-> idOf(LE[i].datum)],
   g |-> [i \in DOMAIN NE |-> idOf(NE[i].datum)]]

\* exportSVG(): the document goes to the browser as `${data.name}.svg`
ExportSVG ==
  /\ pc = "mounted"
  /\ LET svgData == serializeToString(nodeElems, linkElems)
     IN exported' = [g |-> svgData.g, path |-> svgData.path, download |-> 1,
                     visible |-> <<Len(nodes), Len(links)>>]
  /\ UNCHANGED <<pc, data, canvas, nodeIdCounter, children, _children, x, y, x0, y0,
                 nodes, links, nodeElems, linkElems, phase, bounds, zoom, zoomTo,
                 burst, last, hist, zooming, gesture, tooltip, app>>

ViewTrees ==
  UNION {{[i \in 1..n |-> [parent |-> par[i], id |-> ""]] : par \in TreeShapes(n)} :
           n \in 1..MaxView}

InitView ==
  /\ pc = "unmounted"
  /\ data \in ViewTrees
  /\ canvas \in Canvases
  /\ Blank

NextView ==
  \/ Mount
  \/ \E i \in 1..(MaxView * (MaxBurst + 1)) : Click(i)
  \/ TransitionEnd
  \/ Wheel
  \/ Drag
  \/ \E i \in 1..(MaxView * (MaxBurst + 1)) : MouseOver(i)
  \/ MouseMove
  \/ MouseOut
  \/ ExportSVG

SpecView == InitView /\ [][NextView]_vars

\* The display with its export button, and no pointer over the map
NextExport ==
  \/ Next
  \/ ExportSVG

\* The trees as generateMindMap returns them: no node with an id of its own
InitExport ==
  /\ pc = "unmounted"
  /\ data \in {t \in DataTrees : \A i \in DOMAIN t : t[i].id = ""}
  /\ canvas \in Canvases
  /\ Blank

SpecExport == InitExport /\ [][NextExport]_vars

-----------------------------------------------------------------------------
(* The effect runs again on the same data (its dependencies are data,      *)
(* width and height): the counter restarts, the svg is emptied and the     *)
(* tree is rendered anew.                                                   *)

Remount ==
  /\ pc = "mounted"
  /\ LET st == assignIds([id |-> [i \in NodeSet |-> data[i].id], ctr |-> 0], 1)
         ids == st.id
     IN /\ data' = [i \in NodeSet |-> [data[i] EXCEPT !.id = ids[i]]]
        /\ nodeIdCounter' = st.ctr
        /\ children' = collapsedChildren
        /\ _children' = collapsed_children
        /\ Updated(update(1, collapsedChildren, collapsed_children, ids,
                          NoFields, NoFields,
                          (1 :> Exact(height, 2)), (1 :> 0),
                          <<>>, <<>>, canvas))
  /\ burst' = 0
  /\ hist' = <<>>
  /\ last' = [op |-> "remount", node |-> 1, stale |-> FALSE, prev |-> 0]
  /\ UNCHANGED <<pc, canvas, zoom, tooltip, exported, app>>

NextRemount ==
  \/ Next
  \/ Remount

SpecRemount == Init /\ [][NextRemount]_vars

-----------------------------------------------------------------------------
(* The frames of a transition. node.exit().transition() fades the element  *)
(* out with .style("opacity", 0): once a frame of it has run, the opacity   *)
(* of the element is between 1 and 0 (50 stands for any such value, in      *)
(* hundredths). Nothing else in update() writes the opacity of a g.node.    *)

\* The element of the exit selection after a frame of its transition
faded(e) == IF e.exit THEN [e EXCEPT !.opacity = 50] ELSE e

Frame ==
  /\ pc = "mounted"
  /\ phase = "inflight"
  /\ nodeElems' = [i \in DOMAIN nodeElems |-> faded(nodeElems[i])]
  /\ UNCHANGED <<pc, data, canvas, nodeIdCounter, children, _children, x, y, x0, y0,
                 nodes, links, linkElems, phase, bounds, zoom, zoomTo, burst, last,
                 hist, zooming, gesture, tooltip, exported, app>>

NextFade ==
  \/ Next
  \/ Frame

SpecFade == Init /\ [][NextFade]_vars

\* d3-timer runs the frames of a transition until its duration has passed,
\* and nothing a handler does stops the timer: a transition in flight ends.
SpecLive == Init /\ [][NextFade]_vars /\ WF_vars(TransitionEnd)

-----------------------------------------------------------------------------
(* App and generateMindMap (src/services/geminiService.ts): a phrase is     *)
(* sent to the service, the response is parsed and checked, and the tree    *)
(* is handed to the display.                                                *)

\* Bound: an array of children in a response holds up to MaxTopics nodes.
MaxTopics == 2

\* The phrases typed, which are also the names the root of a response may
\* carry ("" for none)
Phrases == {"", "tea", "jazz"}

\* The children field of a node of a response: missing, a value that is not
\* an array (a string), or an array of the nodes in items
Missing == [kind |-> "missing", items |-> <<>>]
NotArray == [kind |-> "string", items |-> <<>>]
ArrayOf(ns) == [kind |-> "array", items |-> ns]

\* A topic: a node with no children, a children that is no array, an empty
\* array or one leaf
Topics ==
  {[name |-> "topic", children |-> c] :
     c \in {Missing, NotArray, ArrayOf(<<>>),
            ArrayOf(<<[name |-> "leaf", children |-> Missing]>>)}}

\* response.text as JSON.parse takes it: not JSON, the JSON null, or an object
Responses ==
  {[json |-> j, name |-> "", children |-> Missing] : j \in {"invalid", "null"}}
    \cup {[json |-> "object", name |-> nm, children |-> c] :
            nm \in Phrases,
            c \in {Missing, NotArray}
                   \cup {ArrayOf(ts) : ts \in UNION {[1..k -> Topics] : k \in 0..MaxTopics}}}

\* The root name of the tree returned: parsedData.name = centralIdea
rootNameAsReturned(name, centralIdea) == name
rootName(name, centralIdea) == IF name # centralIdea THEN centralIdea ELSE name

\* generateMindMap(centralIdea) when the service answers r: the tree returned
\* (ok) or the Error thrown
generateMindMap(centralIdea, r) ==
  IF r.json = "invalid"
  THEN [ok |-> FALSE, error |-> "Failed to parse AI response as JSON.", tree |-> r]
  ELSE IF r.json = "null"
  THEN [ok |-> FALSE, error |-> "AI service failed: TypeError", tree |-> r]
  ELSE IF r.name = "" \/ r.children.kind # "array"
  THEN [ok |-> FALSE,
        error |-> "AI service failed: Invalid mind map structure received from AI.",
        tree |-> r]
  ELSE [ok |-> TRUE, error |-> "",
        tree |-> [r EXCEPT !.name = rootName(r.name, centralIdea)]]

\* The data prop in preorder: the root, then each topic followed by its leaves
toData(tree) ==
  LET under(t, at) ==
        <<[parent |-> 1, id |-> ""]>>
          \o [k \in 1..Len(t.children.items) |-> [parent |-> at, id |-> ""]]
      size(t) == 1 + Len(t.children.items)
      ts == tree.children.items
      RECURSIVE from(_, _)
      from(i, at) == IF i > Len(ts) THEN <<>>
                     ELSE under(ts[i], at) \o from(i + 1, at + size(ts[i]))
  IN <<[parent |-> 0, id |-> ""]>> \o from(1, 2)

\* assignIds(data) throws: node.children is there and has no forEach
assignIdsThrows(tree) ==
  \E i \in DOMAIN tree.children.items : tree.children.items[i].children.kind = "string"

\* The display leaves the page: App renders no MindMapDisplay
Unmount ==
  /\ pc' = "empty"
  /\ data' = <<>>
  /\ children' = <<>> /\ _children' = <<>>
  /\ x' = NoFields /\ y' = NoFields /\ x0' = NoFields /\ y0' = NoFields
  /\ nodes' = <<>> /\ links' = <<>>
  /\ nodeElems' = <<>> /\ linkElems' = <<>>
  /\ phase' = "idle"
  /\ bounds' = [x |-> 0, y |-> 0, width |-> 0, height |-> 0]
  /\ zoom' = zoomIdentity /\ zoomTo' = zoomIdentity /\ zooming' = FALSE
  /\ burst' = 0
  /\ last' = [op |-> "none", node |-> 0, stale |-> FALSE, prev |-> 0]
  /\ hist' = <<>>
  /\ gesture' = [set |-> FALSE, transform |-> zoomIdentity, n |-> 0]
  /\ UNCHANGED <<canvas, nodeIdCounter, tooltip, exported>>

\* onChange of the input
SetCentralIdea ==
  /\ pc # "crashed" /\ ~app.isLoading
  /\ \E p \in Phrases : app' = [app EXCEPT !.centralIdea = p]
  /\ UNCHANGED <<pc, data, canvas, nodeIdCounter, children, _children, x, y, x0, y0,
                 nodes, links, nodeElems, linkElems, phase, bounds, zoom, zoomTo,
                 burst, last, hist, zooming, gesture, tooltip, exported>>

\* handleGenerateMindMap, up to the await
HandleGenerateMindMap ==
  /\ pc # "crashed" /\ ~app.isLoading
  /\ IF app.centralIdea = ""
     THEN /\ app' = [app EXCEPT !.error = "Please enter a central idea."]
          /\ UNCHANGED <<pc, data, canvas, nodeIdCounter, children, _children, x, y,
                         x0, y0, nodes, links, nodeElems, linkElems, phase, bounds,
                         zoom, zoomTo, burst, last, hist, zooming, gesture, tooltip,
                         exported>>
     ELSE /\ app' = [app EXCEPT !.isLoading = TRUE, !.error = "",
                                !.requested = app.centralIdea, !.response = NoResponse,
                                !.ok = FALSE, !.name = ""]
          /\ Unmount

\* handleGenerateMindMap, from the await on: generateMindMap has returned a
\* tree, which becomes the data prop of a new display, or has thrown
GenerateReturns ==
  /\ app.isLoading
  /\ \E r \in Responses :
       LET res == generateMindMap(app.requested, r)
       IN /\ app' = [app EXCEPT !.isLoading = FALSE, !.error = res.error,
                                !.response = r, !.ok = res.ok,
                                !.name = IF res.ok THEN res.tree.name ELSE ""]
          /\ pc' = IF res.ok THEN "unmounted" ELSE "empty"
          /\ data' = IF res.ok THEN toData(res.tree) ELSE <<>>
  /\ UNCHANGED <<canvas, nodeIdCounter, children, _children, x, y, x0, y0,
                 nodes, links, nodeElems, linkElems, phase, bounds, zoom, zoomTo,
                 burst, last, hist, zooming, gesture, tooltip, exported>>

\* The effect of the new display: assignIds throws, and with no error
\* boundary React takes the page down; or the effect runs through
Effect ==
  /\ pc = "unmounted"
  /\ IF assignIdsThrows(app.response)
     THEN /\ pc' = "crashed"
          /\ nodeIdCounter' = 0
          /\ UNCHANGED <<data, canvas, children, _children, x, y, x0, y0,
                         nodes, links, nodeElems, linkElems, phase, bounds, zoom,
                         zoomTo, burst, last, hist, zooming, gesture, tooltip,
                         exported, app>>
     ELSE Mount

\* handleClear
HandleClear ==
  /\ pc # "crashed" /\ ~app.isLoading
  /\ app' = [app EXCEPT !.centralIdea = "", !.error = "", !.isLoading = FALSE]
  /\ Unmount

InitGen ==
  /\ pc = "empty"
  /\ data = <<>>
  /\ canvas \in Canvases
  /\ Blank

NextGen ==
  \/ SetCentralIdea
  \/ HandleGenerateMindMap
  \/ GenerateReturns
  \/ Effect
  \/ HandleClear

SpecGen == InitGen /\ [][NextGen]_vars

-----------------------------------------------------------------------------
(* The visible set and the toggles                                          *)

\* The nodes below n in the data tree
Below(n) == {m \in NodeSet : m # n /\ n \in AncestorsOrSelf([i \in NodeSet |-> parentOf(i)], m)}

\* The fields before the last click, and before the click before it
BeforeLast == hist[Len(hist)]
BeforeBoth == hist[Len(hist) - 1]

\* C1, as stated: right after the first render, before any toggle, the
\* visible set is exactly the set of the nodes at depth <= 1.
C1_VisibleToDepthOne ==
  last.op = "mount" => Range(nodes) = {n \in NodeSet : depth(n) <= 1}

\* C1, amended: right after the first render, before any toggle, the visible
\* set is exactly the set of the nodes at depth <= 2, each once, with one
\* edge per visible node other than the root; every node at depth >= 3 is
\* kept in the _children of its parent and is not visible.
C1_VisibleToDepthTwo ==
  last.op = "mount" =>
    /\ Range(nodes) = {n \in NodeSet : depth(n) <= 2}
    /\ Cardinality(Range(nodes)) = Len(nodes)
    /\ Len(links) = Len(nodes) - 1
    /\ \A n \in NodeSet : depth(n) >= 3 =>
         n \notin Range(nodes) /\ n \in Range(_children[parentOf(n)])

\* A first render of a tree with a node at depth 2 and a node at depth 3
C1_Witness ==
  /\ last.op = "mount"
  /\ \E n, m \in NodeSet : depth(n) = 2 /\ depth(m) = 3

\* C2: when a node with children is toggled twice in succession, the visible
\* set is again the one before the first toggle, and every node (so every
\* descendant of the toggled node) has the children and _children, and with
\* them the expanded flag, it had before the first toggle.
C2_ToggleTwiceRestores ==
  (last.op = "toggle" /\ last.prev = last.node /\ DataChildren(last.node) # <<>>) =>
    /\ nodes = BeforeBoth.nodes
    /\ children = BeforeBoth.children
    /\ _children = BeforeBoth._children

\* A visible node was toggled twice in succession, the first toggle changed
\* the visible set, and a node below it is expanded.
C2_Witness ==
  /\ last.op = "toggle" /\ last.prev = last.node /\ ~last.stale
  /\ DataChildren(last.node) # <<>>
  /\ BeforeLast.nodes # BeforeBoth.nodes
  /\ \E m \in Below(last.node) : expanded(m)

\* C3: a toggle of a node without data-children leaves the visible set, the
\* position of every visible node, the edges and the children and _children
\* (the expanded flag) of every node as they were.
C3_LeafToggleNoOp ==
  (last.op = "toggle" /\ DataChildren(last.node) = <<>>) =>
    /\ nodes = BeforeLast.nodes
    /\ links = BeforeLast.links
    /\ children = BeforeLast.children
    /\ _children = BeforeLast._children
    /\ \A n \in Range(nodes) : x[n] = BeforeLast.x[n] /\ y[n] = BeforeLast.y[n]

\* A visible leaf of a tree of several visible nodes was toggled
C3_Witness ==
  /\ last.op = "toggle" /\ ~last.stale
  /\ DataChildren(last.node) = <<>>
  /\ Len(nodes) > 2

\* C4, as stated: a toggle of a node that is not in the visible set (the
\* click lands on an element whose exit transition is in flight) changes no
\* expanded flag and leaves the visible set as it was.
C4_StaleToggleNoOp ==
  (last.op = "toggle" /\ last.stale) =>
    /\ nodes = BeforeLast.nodes
    /\ children = BeforeLast.children
    /\ _children = BeforeLast._children

\* A click on an element on its way out flipped the expanded flag of its node
C4_Witness ==
  /\ last.op = "toggle" /\ last.stale
  /\ expanded(last.node) # (BeforeLast.children[last.node] # <<>>)

\* C5, as stated: a node is expanded if and only if its data-children are
\* in the visible set (a node without data-children is never expanded).
C5_ExpandedIffChildrenVisible ==
  pc = "mounted" =>
    \A n \in NodeSet :
      expanded(n) <=>
        (DataChildren(n) # <<>> /\ Range(DataChildren(n)) \subseteq Range(nodes))

\* C5, amended: the root is visible, and a visible node with data-children
\* is expanded if and only if its data-children are in the visible set; when
\* it is not expanded none of them is.  A node without data-children is
\* never expanded.
C5_VisibleExpandedIffChildrenVisible ==
  pc = "mounted" =>
    /\ 1 \in Range(nodes)
    /\ \A n \in NodeSet : DataChildren(n) = <<>> => ~expanded(n)
    /\ \A n \in Range(nodes) :
         DataChildren(n) # <<>> =>
           /\ expanded(n) => Range(DataChildren(n)) \subseteq Range(nodes)
           /\ ~expanded(n) => Range(DataChildren(n)) \cap Range(nodes) = {}

\* A collapsed visible node, and an expanded node that is not visible
C5_Witness ==
  /\ pc = "mounted"
  /\ \E n \in Range(nodes) : DataChildren(n) # <<>> /\ ~expanded(n)
  /\ \E m \in NodeSet \ Range(nodes) : expanded(m)

-----------------------------------------------------------------------------
(* The ids                                                                  *)

\* C6, as stated: after assignIds every node has an id and no two nodes of
\* the tree have the same id.
C6_IdsUnique ==
  pc = "mounted" =>
    /\ \A i \in NodeSet : data[i].id # ""
    /\ \A i, j \in NodeSet : i # j => data[i].id # data[j].id

\* The root came with an id and a node without one was given the same id
C6_Witness ==
  /\ pc = "mounted"
  /\ \E j \in NodeSet \ {1} : data[j].id = data[1].id

\* C7, as stated: no two g.node elements of the group have the same id and
\* no two path.link elements have the same target id, transitions in flight
\* or not.
C7_RenderedIdsUnique ==
  /\ \A i, j \in DOMAIN nodeElems :
       i # j => data[nodeElems[i].datum].id # data[nodeElems[j].datum].id
  /\ \A i, j \in DOMAIN linkElems :
       i # j => data[linkElems[i].datum].id # data[linkElems[j].datum].id

\* C7, where the ids of the tree are unique: then no two g.node elements
\* have the same id and no two path.link elements the same target id.
C7_UniqueWhenIdsUnique ==
  (\A i, j \in NodeSet : i # j => data[i].id # data[j].id) => C7_RenderedIdsUnique

\* Two g.node elements with the same id, neither on its way out
C7_Witness ==
  \E i, j \in DOMAIN nodeElems :
    /\ i # j /\ ~nodeElems[i].exit /\ ~nodeElems[j].exit
    /\ data[nodeElems[i].datum].id = data[nodeElems[j].datum].id


-----------------------------------------------------------------------------
(* The auto-fit                                                             *)

\* C8, as stated: after the first render or a toggle, the box the auto-fit
\* frames is the box of the visible nodes and their links at their newly
\* computed positions (the positions the transitions of the cycle end on).
C8_FramesNewLayout ==
  last.op \in {"mount", "toggle"} =>
    bounds = getBBox(settledNodes(nodeElems), settledLinks(linkElems))

\* The transitions of a cycle have ended with the scale at the maximum, and
\* the rect of a visible node ends to the right of the canvas:
\* zoom.x + zoom.k * (tf[1] + w) > parentWidth.
C8_Witness ==
  /\ last.op = "end" /\ zoom.k = maxScale
  /\ \E i \in DOMAIN nodeElems :
       2 * zoom.x[1] + 3 * zoom.x[2] * (nodeElems[i].tf[1] + nodeElems[i].w)
         > 2 * zoom.x[2] * canvas[1]

-----------------------------------------------------------------------------
(* The auto-fit on its own: the first render of a tree of one node, and     *)
(* then the auto-fit block of update() applied to a getBBox() result and a  *)
(* canvas drawn from bounded sets, boxes with a zero dimension among them.  *)

FitBoxes ==
  LET extents == {0} \cup {Px(250 * k) : k \in 1..MaxFit}
  IN {[x |-> bx, y |-> by, width |-> w, height |-> h] :
        bx \in {0, -Px(100)}, by \in {0, Px(400)}, w \in extents, h \in extents}

\* The default canvas, a canvas smaller than the margins, a tall canvas
FitCanvases == {<<width, height>>, <<Px(300), Px(80)>>, <<Px(600), Px(1400)>>}

InitFit ==
  /\ pc = "unmounted"
  /\ data \in {t \in DataTrees : Len(t) = 1}
  /\ canvas \in FitCanvases
  /\ Blank

\* if (nodes.length > 0) { ... }: the auto-fit block with bounds = b
AutoFit ==
  /\ pc = "mounted"
  /\ \E b \in FitBoxes :
       /\ bounds' = b
       /\ zoomTo' = autoFit(b, canvas)
  /\ pc' = "fitted"
  /\ phase' = "inflight"
  /\ last' = [op |-> "fit", node |-> 0, stale |-> FALSE, prev |-> 0]
  /\ zooming' = TRUE
  /\ UNCHANGED <<data, canvas, nodeIdCounter, children, _children, x, y, x0, y0,
                 nodes, links, nodeElems, linkElems, zoom, burst, hist,
                 gesture, tooltip, exported, app>>

NextFit ==
  \/ Mount
  \/ AutoFit

SpecFit == InitFit /\ [][NextFit]_vars

\* The transform puts the centre of the framed box on the centre of the
\* canvas: zoomTo.x + k * (bounds.x + bounds.width / 2) = parentWidth / 2,
\* and likewise down the canvas.
CentredAlong(t, origin, extent, parent) ==
  2 * t[1] * zoomTo.k[2] + zoomTo.k[1] * (2 * origin + extent) * t[2]
    = parent * t[2] * zoomTo.k[2]
Centred ==
  /\ CentredAlong(zoomTo.x, bounds.x, bounds.width, canvas[1])
  /\ CentredAlong(zoomTo.y, bounds.y, bounds.height, canvas[2])

\* The transform is made of numbers: no division by zero has left an
\* infinity or a NaN in it.
Finite == zoomTo.k[2] > 0 /\ zoomTo.x[2] > 0 /\ zoomTo.y[2] > 0

\* The canvas less the margins
WidthLessMargins == canvas[1] - Px(100) - Px(250)
HeightLessMargins == canvas[2] - Px(50) - Px(50)

\* k is the least of the fractions qs
LeastOf(k, qs) == k \in qs /\ \A q \in qs : RatLeq(k, q)

C10_ScaleFromCanvas ==
  (last.op = "fit" /\ bounds.width > 0 /\ bounds.height > 0) =>
    LeastOf(zoomTo.k, {Rat(canvas[1], bounds.width), Rat(canvas[2], bounds.height),
                       Rat(3, 2)})

\* C10, amended: for a box of positive width and height the scale is
\* min((canvasWidth - 350) / boundsWidth, (canvasHeight - 100) / boundsHeight,
\* 1.5): the canvas less the left and right, top and bottom margins.
C10_ScaleFromCanvasLessMargins ==
  (last.op = "fit" /\ bounds.width > 0 /\ bounds.height > 0) =>
    LeastOf(zoomTo.k, {Rat(WidthLessMargins, bounds.width),
                       Rat(HeightLessMargins, bounds.height), Rat(3, 2)})

\* A box of positive width and height that fits the canvas but not the
\* canvas less the margins, framed at a scale below 1
C10_Witness ==
  /\ last.op = "fit"
  /\ bounds.width > 0 /\ bounds.height > 0
  /\ bounds.width <= canvas[1] /\ bounds.height <= canvas[2]
  /\ RatLeq(zoomTo.k, Rat(1, 1)) /\ zoomTo.k # Rat(1, 1)

-----------------------------------------------------------------------------
(* The layout, the collapse policy and the recorded positions               *)

\* C14: in every visible set, two visible siblings are at least the height
\* of a node apart along the cross axis (their intervals [x - 25, x + 25]
\* do not overlap), and a visible node with visible children is at the
\* midpoint of its first and last child.
C14_SiblingsApartParentCentred ==
  pc = "mounted" =>
    /\ \A a, b \in Range(nodes) :
         (a # b /\ parentOf(a) = parentOf(b)) => Abs(x[a] - x[b]) >= NODE_DIMENSIONS.height
    /\ \A n \in Range(nodes) :
         children[n] # <<>> => 2 * x[n] = x[children[n][1]] + x[Last(children[n])]

\* After a toggle, visible siblings, one of them with a visible child
C14_Witness ==
  /\ last.op = "toggle"
  /\ \E n, m \in Range(nodes) :
       n # m /\ parentOf(n) = parentOf(m) /\ children[n] # <<>>

\* C17: right after the first render every node with children at depth 0 or
\* 1 is expanded, and every node at depth > 1 is collapsed, its data-children
\* in _children.
C17_InitialCollapsePolicy ==
  last.op = "mount" =>
    \A n \in NodeSet :
      /\ (depth(n) <= 1 /\ DataChildren(n) # <<>>) =>
            expanded(n) /\ children[n] = DataChildren(n) /\ _children[n] = <<>>
      /\ depth(n) > 1 => ~expanded(n) /\ _children[n] = DataChildren(n)

\* A first render of a tree with children at depths 0, 1 and 2
C17_Witness ==
  /\ last.op = "mount"
  /\ \E n, m \in NodeSet :
       depth(n) = 1 /\ DataChildren(n) # <<>> /\ depth(m) = 2 /\ DataChildren(m) # <<>>

\* C18: a toggle of n leaves the children and _children (the expanded flag)
\* of every other node as they were, and in every state the children and
\* the _children of a node are, one empty and the other in data order, its
\* data-children.
C18_ToggleTouchesOnlyItsNode ==
  /\ last.op = "toggle" =>
       \A m \in NodeSet \ {last.node} :
         children[m] = BeforeLast.children[m] /\ _children[m] = BeforeLast._children[m]
  /\ pc = "mounted" =>
       \A m \in NodeSet :
         /\ children[m] = <<>> \/ _children[m] = <<>>
         /\ children[m] \o _children[m] = DataChildren(m)

\* A node was collapsed above an expanded node, and its flag changed
C18_Witness ==
  /\ last.op = "toggle" /\ ~last.stale
  /\ ~expanded(last.node) /\ BeforeLast.children[last.node] # <<>>
  /\ \E m \in Below(last.node) : expanded(m)

\* C20: after every render cycle the x0 and y0 of every visible node are
\* the x and y that the cycle's layout computed for it.
C20_PreviousPositionRecorded ==
  pc = "mounted" =>
    \A n \in Range(nodes) :
      /\ x0[n] = x[n] /\ y0[n] = y[n]
      /\ x[n] = treeLayout(children)[n].x /\ y[n] = treeLayout(children)[n].y

\* A toggle brought a node back off the axis of the root: its recorded
\* position is the one just computed
C20_Witness ==
  /\ last.op = "toggle"
  /\ \E n \in Range(nodes) \ Range(BeforeLast.nodes) : x[n] # 0 /\ x0[n] = x[n]

\* Trees of MaxWide nodes, none with an id of its own: wide enough for a
\* toggle to move the toggled node across the axis of the root
MaxWide == 6

WideTrees ==
  {[i \in 1..MaxWide |-> [parent |-> par[i], id |-> ""]] : par \in TreeShapes(MaxWide)}

InitWide ==
  /\ pc = "unmounted"
  /\ data \in WideTrees
  /\ canvas \in Canvases
  /\ Blank

NextWide ==
  \/ Mount
  \/ \E i \in 1..(MaxWide * (MaxBurst + 1)) : Click(i)
  \/ TransitionEnd

SpecWide == InitWide /\ [][NextWide]_vars

\* C19: in every render cycle an entering g.node element is created at the
\* position recorded for the anchor by the preceding render (y0, x0 of the
\* clicked node; 0 and height / 2 for the root at the first render).
C19_EnterAtPreviousPosition ==
  /\ last.op = "toggle" =>
       \A i \in DOMAIN nodeElems :
         nodeElems[i].entered =>
           nodeElems[i].tf = <<BeforeLast.y0[last.node], BeforeLast.x0[last.node]>>
  /\ last.op = "mount" =>
       \A i \in DOMAIN nodeElems :
         nodeElems[i].entered => nodeElems[i].tf = <<0, Exact(height, 2)>>

\* An element entered at a toggle of a node whose recorded x0 was 0 and
\* whose new x is not
C19_Witness ==
  /\ last.op = "toggle"
  /\ \E i \in DOMAIN nodeElems : nodeElems[i].entered
  /\ BeforeLast.x0[last.node] = 0 /\ x[last.node] # 0

\* C15: no step changes the data tree handed to the component: the name,
\* children and id of every data node stay what they were.
C15_DataNeverMutated == [][data' = data]_vars

\* The effect has run and has numbered at least one node
C15_Witness == pc = "mounted" /\ nodeIdCounter > 0 /\ \E i \in NodeSet : data[i].id = SynthId(0)

-----------------------------------------------------------------------------
(* The viewport under the pointer, and the exported document                *)

\* C11: the transform a wheel or drag gesture has set stays the transform of
\* the group through hover, export and the end of the transitions, until a
\* toggle runs update() again; and once the transitions of an update() have
\* ended with no gesture since, the group has the auto-fit transform.
C11_GestureTransformKept ==
  /\ gesture.set => zoom = gesture.transform
  /\ (pc = "mounted" /\ phase = "idle" /\ ~gesture.set) => zoom = zoomTo

\* A gesture made while the transitions of a toggle were in flight has kept
\* its transform past their end, with the pointer over a node and a document
\* exported
C11_Witness ==
  /\ gesture.set /\ zoom # zoomTo
  /\ last.op = "end"
  /\ tooltip.opacity = 1 /\ tooltip.at # <<0, 0>>
  /\ exported.download # 0

\* The view: everything of the state but the exported document
view ==
  <<pc, data, canvas, nodeIdCounter, children, _children, x, y, x0, y0, nodes, links,
    nodeElems, linkElems, phase, bounds, zoom, zoomTo, zooming, tooltip>>

\* C12: a document exported at any moment holds one g.node per node visible
\* then and one path.link per link visible then, and the export leaves the
\* view as it was.
C12_ExportOneShapePerVisible ==
  /\ [](exported.download # 0 =>
          /\ Len(exported.g) = exported.visible[1]
          /\ Len(exported.path) = exported.visible[2])
  /\ [][exported' # exported => view' = view]_vars

\* A document exported while a collapsed child was on its way out
C12_Witness ==
  /\ exported.download # 0
  /\ Len(exported.g) > exported.visible[1]
  /\ Len(exported.path) > exported.visible[2]

-----------------------------------------------------------------------------
(* Generation                                                               *)

\* The tree returned lacks the root label, or has a children value that is
\* not an array, at the root or at a topic
malformed(r) ==
  /\ r.json = "object"
  /\ \/ r.name = ""
     \/ r.children.kind = "string"
     \/ \E i \in DOMAIN r.children.items : r.children.items[i].children.kind = "string"

\* C13: when the service has answered with a malformed tree, the generation
\* has failed with an error, no display is on the page and nothing of the
\* tree has been laid out or rendered.
C13_MalformedTreeFails ==
  malformed(app.response) =>
    /\ ~app.ok
    /\ pc = "empty"
    /\ nodes = <<>> /\ nodeElems = <<>>

\* A tree whose topic carries a string for children went through the check
\* of the root and took the page down in the effect of the display
C13_Witness ==
  /\ malformed(app.response) /\ app.ok /\ app.error = ""
  /\ pc = "crashed"

\* C16: a tree that generateMindMap has returned carries the requested
\* phrase as its root name.
C16_RootNameIsRequested == app.ok => app.name = app.requested

\* A tree was returned and displayed whose root the service had named
\* otherwise than requested
C16_Witness ==
  /\ app.ok
  /\ pc = "mounted"
  /\ app.response.name # app.requested

-----------------------------------------------------------------------------
(* The scale of the auto-fit on any canvas                                  *)

\* C26: whatever the canvas and the box, the scale the auto-fit applies is
\* strictly positive and at most 1.5.
C26_ScalePositiveAtMostMax ==
  pc # "unmounted" =>
    /\ zoomTo.k[1] > 0 /\ zoomTo.k[2] > 0
    /\ RatLeq(zoomTo.k, maxScale)

\* The auto-fit has framed a box of positive width and height on a canvas
\* narrower than the left and right margins together
C26_Witness ==
  /\ last.op = "fit"
  /\ canvas[1] < LAYOUT_CONSTANTS.margin.left + LAYOUT_CONSTANTS.margin.right
  /\ bounds.width > 0 /\ bounds.height > 0
  /\ zoomTo.k[1] < 0

-----------------------------------------------------------------------------
(* The visible set as a tree                                                *)

\* C24: in every state the root is visible, a node other than the root is
\* visible exactly when its parent is visible and holds it in children, no
\* node is visible twice, and the links are the pairs of a visible node other
\* than the root and its parent, one fewer than the visible nodes.
C24_VisibleClosedUnderAncestors ==
  pc = "mounted" =>
    /\ 1 \in Range(nodes)
    /\ \A n \in NodeSet \ {1} :
         n \in Range(nodes) <=>
           (parentOf(n) \in Range(nodes) /\ n \in Range(children[parentOf(n)]))
    /\ Cardinality(Range(nodes)) = Len(nodes)
    /\ Range(links) = {<<parentOf(n), n>> : n \in Range(nodes) \ {1}}
    /\ Len(links) = Len(nodes) - 1

\* A click on an element on its way out has expanded a node whose parent is
\* collapsed: the node holds children and stays outside the visible set
C24_Witness ==
  /\ last.op = "toggle" /\ last.stale
  /\ expanded(last.node)
  /\ last.node \notin Range(nodes)

-----------------------------------------------------------------------------
(* The ids over the life of a tree                                          *)

\* C23: no step changes an id a node has: not a toggle, not the end of the
\* transitions, and not a new run of the effect on the same data, which
\* restarts the counter at 0.
C23_IdsNeverChange ==
  [][\A i \in DOMAIN data : data[i].id # "" => data'[i].id = data[i].id]_vars

\* The effect has run again on a tree numbered by its first run, with a
\* pre-supplied id among the ids, and the counter is back at 0
C23_Witness ==
  /\ last.op = "remount"
  /\ nodeIdCounter = 0
  /\ \E i, j \in NodeSet : data[i].id = SynthId(0) /\ data[j].id \in PreSuppliedIds

\* The ids of the g.node elements and the target ids of the path.link
\* elements are those of the visible nodes and of the visible links.
RenderedIsVisible ==
  /\ {idOf(nodeElems[i].datum) : i \in DOMAIN nodeElems} = {idOf(n) : n \in Range(nodes)}
  /\ {idOf(linkElems[i].datum) : i \in DOMAIN linkElems} = {idOf(l[2]) : l \in Range(links)}

\* C21: whatever the toggles, those during a transition included, once the
\* transitions have ended the ids of the rendered nodes are those of the
\* visible nodes and the target ids of the rendered links those of the
\* visible links, with no element on its way out left; and transitions in
\* flight do end, so every exiting element whose id did not re-enter is
\* removed while one whose id re-entered stays.
C21_SettlesToVisible ==
  /\ [](pc = "mounted" /\ phase = "idle" =>
         /\ RenderedIsVisible
         /\ \A i \in DOMAIN nodeElems : ~nodeElems[i].exit
         /\ \A i \in DOMAIN linkElems : ~linkElems[i].exit)
  /\ (phase = "inflight") ~> (phase = "idle" /\ RenderedIsVisible)

\* The transitions have ended and an element that was fading out when its id
\* re-entered the visible set is still there, for a visible node
C21_Witness ==
  /\ pc = "mounted" /\ phase = "idle" /\ last.op = "end"
  /\ \E i \in DOMAIN nodeElems :
       nodeElems[i].opacity < 100 /\ nodeElems[i].datum \in Range(nodes)

\* C25: when the transitions have ended, every g.node element is fully
\* opaque, one whose node left the visible set and re-entered it during the
\* fade-out included.
C25_OpaqueWhenSettled ==
  pc = "mounted" /\ phase = "idle" =>
    \A i \in DOMAIN nodeElems : nodeElems[i].opacity = 100

\* A node was collapsed away and expanded back while its element faded out:
\* the transitions have ended, the element is not on its way out, and its
\* opacity is not 1
C25_Witness ==
  /\ phase = "idle"
  /\ \E i \in DOMAIN nodeElems :
       /\ ~nodeElems[i].exit
       /\ nodeElems[i].opacity = 50
       /\ nodeElems[i].datum # 1
       /\ expanded(parentOf(nodeElems[i].datum))

\* C22: whatever the pointer and the toggles did, when the pointer is over
\* no node then no g.node and no path.link has the highlight colour, every
\* rect has the colour of the depth of its node, and the tooltip is hidden;
\* and the node the pointer is over has the highlight colour.
C22_HighlightFollowsPointer ==
  pc = "mounted" =>
    /\ (\A j \in DOMAIN nodeElems : ~nodeElems[j].over) =>
          /\ \A j \in DOMAIN nodeElems :
                /\ nodeElems[j].rect = getNodeFillClass(nodeElems[j].datum)
                /\ nodeElems[j].strokeWidth = 1
          /\ \A j \in DOMAIN linkElems : linkElems[j].stroke = D3_LINK_COLOR
          /\ tooltip.opacity = 0
    /\ \A j \in DOMAIN nodeElems :
          nodeElems[j].over => nodeElems[j].rect = D3_NODE_COLORS.highlight

\* The pointer went onto a g.node that was on its way out, and the element
\* was removed under it when its transition ended: the pointer is over no
\* node and the tooltip is shown
C22_Witness ==
  /\ pc = "mounted" /\ phase = "idle" /\ last.op = "end"
  /\ \A j \in DOMAIN nodeElems : ~nodeElems[j].over
  /\ tooltip.opacity = 1
  /\ tooltip.html \notin Range(nodes)


=============================================================================
